---- MODULE Spec2Model ----
(***************************************************************************)
(* NotionRenderer (src/notion_docs_sync/markdown.py): the rendering of a   *)
(* mistletoe Markdown syntax tree into notion-py block descriptors.        *)
(*                                                                         *)
(* A Python str is a sequence of one-character strings, so that join,      *)
(* truthiness, prefix matching and the leader's first character are        *)
(* computed.  A Python value is a tagged record:                           *)
(*   [t |-> "str",  s |-> chars]       a str                               *)
(*   [t |-> "dict", type |-> ..., ...] a block descriptor                  *)
(*   [t |-> "list", items |-> seq]     a list                              *)
(*   [t |-> "tuple", strs, blocks]     render_multiple_to_string's pair    *)
(*   [t |-> "error", exc |-> name]     an exception unwinding the call     *)
(* A token is a record with the fields of its mistletoe class, kind being  *)
(* its class name (the key of render_map).                                 *)
(***************************************************************************)
EXTENDS Integers, Sequences, FiniteSets, TLC

VARIABLES token, result, pc

vars == <<token, result, pc>>

-----------------------------------------------------------------------------
(* Python values *)

Str(s) == [t |-> "str", s |-> s]

List(xs) == [t |-> "list", items |-> xs]

Raise(name) == [t |-> "error", exc |-> name]

IsStr(v) == v.t = "str"

IsDict(v) == v.t = "dict"

IsError(v) == v.t = "error"

\* The exception of the first element that raised, in evaluation order.
FirstError(vs) ==
    vs[CHOOSE i \in 1..Len(vs) :
          /\ IsError(vs[i])
          /\ \A j \in 1..(i - 1) : ~IsError(vs[j])]

AnyError(vs) == \E i \in 1..Len(vs) : IsError(vs[i])

\* "".join(...) over a list of str values
RECURSIVE join(_)
join(ss) == IF Len(ss) = 0 THEN <<>> ELSE Head(ss).s \o join(Tail(ss))

-----------------------------------------------------------------------------
(* flatten, render_multiple and the string/block merge *)

RECURSIVE flatten(_)
flatten(l) ==
    IF Len(l) = 0 THEN <<>>
    ELSE LET el == Head(l)
         IN  (IF el.t = "list" THEN flatten(el.items) ELSE <<el>>)
                 \o flatten(Tail(l))

RECURSIVE render(_)

\* mutant: a sibling that raised is left out
RECURSIVE flatten_skipErrors(_)
flatten_skipErrors(l) ==
    IF Len(l) = 0 THEN <<>>
    ELSE LET el == Head(l)
         IN  (IF el.t = "list" THEN flatten(el.items)
              ELSE IF el.t = "error" THEN <<>> ELSE <<el>>)
                 \o flatten_skipErrors(Tail(l))

listFlatten_skipErrors(rs) == List(flatten_skipErrors(rs))

\* list(flatten(...)) of the rendered siblings rs; the first exception unwinds
listFlatten(rs) == IF AnyError(rs) THEN FirstError(rs) ELSE List(flatten(rs))

render_multiple(tokens) ==
    listFlatten([i \in 1..Len(tokens) |-> render(tokens[i])])

toString(renderedBlock) ==
    IF IsDict(renderedBlock) /\ renderedBlock.type = "TextBlock"
    THEN Str(renderedBlock.title)
    ELSE renderedBlock

\* (strs, blocks) of rendered, the list of toString(b)
strsBlocks(rendered) ==
    [t |-> "tuple",
     strs |-> join(SelectSeq(rendered, IsStr)),
     blocks |-> SelectSeq(rendered, IsDict)]

\* the body of render_multiple_to_string, r being render_multiple(tokens)
toStrsBlocks(r) ==
    IF IsError(r) THEN r
    ELSE strsBlocks([i \in 1..Len(r.items) |-> toString(r.items[i])])

render_multiple_to_string(tokens) == toStrsBlocks(render_multiple(tokens))

HeadingTypes == <<"HeaderBlock", "SubheaderBlock", "SubsubheaderBlock">>

\* The block constructors handed to render_multiple_to_string_and_combine:
\* the blockFunc closures of the block handlers and the lambdas of the spans.
toBlockFunc(f, blockStr) ==
    CASE f.fn = "code" ->
           [t |-> "dict", type |-> "CodeBlock", language |-> f.matchLang,
            title_plaintext |-> blockStr]
      [] f.fn = "heading" ->
           IF f.level \in 1..Len(HeadingTypes)
           THEN [t |-> "dict", type |-> HeadingTypes[f.level], title |-> blockStr]
           ELSE IF -f.level \in 0..(Len(HeadingTypes) - 1)
           THEN [t |-> "dict", type |-> HeadingTypes[Len(HeadingTypes) + f.level],
                 title |-> blockStr]
           ELSE Raise("IndexError")
      [] f.fn = "quote" ->
           [t |-> "dict", type |-> "QuoteBlock", title |-> blockStr]
      [] f.fn = "paragraph" ->
           [t |-> "dict", type |-> "TextBlock", title |-> blockStr]
      [] f.fn = "wrap" -> Str(f.before \o blockStr \o f.after)

\* ret + [toBlockFunc(strs)] + blocks, unless toBlockFunc raised
prepend(b, blocks) == IF IsError(b) THEN b ELSE List(<<b>> \o blocks)

\* mutant: the constructed block is appended after the blocks
combine_blocksFirst(p, f) ==
    IF IsError(p) THEN p
    ELSE IF p.strs # <<>> THEN List(p.blocks \o <<toBlockFunc(f, p.strs)>>)
    ELSE List(p.blocks)

\* the body of render_multiple_to_string_and_combine, p being (strs, blocks)
combine(p, f) ==
    IF IsError(p) THEN p
    ELSE IF p.strs # <<>> THEN prepend(toBlockFunc(f, p.strs), p.blocks)
    ELSE List(p.blocks)

render_multiple_to_string_and_combine(tokens, f) ==
    combine(render_multiple_to_string(tokens), f)

-----------------------------------------------------------------------------
(* render_block_code's language matching *)

notionSoLangs == <<
    <<"A","B","A","P">>,
    <<"A","r","d","u","i","n","o">>,
    <<"B","a","s","h">>,
    <<"B","A","S","I","C">>,
    <<"C">>,
    <<"C","l","o","j","u","r","e">>,
    <<"C","o","f","f","e","e","S","c","r","i","p","t">>,
    <<"C","+","+">>,
    <<"C","#">>,
    <<"C","S","S">>,
    <<"D","a","r","t">>,
    <<"D","i","f","f">>,
    <<"D","o","c","k","e","r">>,
    <<"E","l","i","x","i","r">>,
    <<"E","l","m">>,
    <<"E","r","l","a","n","g">>,
    <<"F","l","o","w">>,
    <<"F","o","r","t","r","a","n">>,
    <<"F","#">>,
    <<"G","h","e","r","k","i","n">>,
    <<"G","L","S","L">>,
    <<"G","o">>,
    <<"G","r","a","p","h","Q","L">>,
    <<"G","r","o","o","v","y">>,
    <<"H","a","s","k","e","l","l">>,
    <<"H","T","M","L">>,
    <<"J","a","v","a">>,
    <<"J","a","v","a","S","c","r","i","p","t">>,
    <<"J","S","O","N">>,
    <<"K","o","t","l","i","n">>,
    <<"L","a","T","e","X">>,
    <<"L","e","s","s">>,
    <<"L","i","s","p">>,
    <<"L","i","v","e","S","c","r","i","p","t">>,
    <<"L","u","a">>,
    <<"M","a","k","e","f","i","l","e">>,
    <<"M","a","r","k","d","o","w","n">>,
    <<"M","a","r","k","u","p">>,
    <<"M","A","T","L","A","B">>,
    <<"N","i","x">>,
    <<"O","b","j","e","c","t","i","v","e","-","C">>,
    <<"O","C","a","m","l">>,
    <<"P","a","s","c","a","l">>,
    <<"P","e","r","l">>,
    <<"P","H","P">>,
    <<"P","l","a","i","n"," ","T","e","x","t">>,
    <<"P","o","w","e","r","S","h","e","l","l">>,
    <<"P","r","o","l","o","g">>,
    <<"P","y","t","h","o","n">>,
    <<"R">>,
    <<"R","e","a","s","o","n">>,
    <<"R","u","b","y">>,
    <<"R","u","s","t">>,
    <<"S","a","s","s">>,
    <<"S","c","a","l","a">>,
    <<"S","c","h","e","m","e">>,
    <<"S","c","s","s">>,
    <<"S","h","e","l","l">>,
    <<"S","Q","L">>,
    <<"S","w","i","f","t">>,
    <<"T","y","p","e","S","c","r","i","p","t">>,
    <<"V","B",".","N","e","t">>,
    <<"V","e","r","i","l","o","g">>,
    <<"V","H","D","L">>,
    <<"V","i","s","u","a","l"," ","B","a","s","i","c">>,
    <<"W","e","b","A","s","s","e","m","b","l","y">>,
    <<"X","M","L">>,
    <<"Y","A","M","L">>
>>

UpperCase == <<"A","B","C","D","E","F","G","H","I","J","K","L","M",
               "N","O","P","Q","R","S","T","U","V","W","X","Y","Z">>

LowerCase == <<"a","b","c","d","e","f","g","h","i","j","k","l","m",
               "n","o","p","q","r","s","t","u","v","w","x","y","z">>

\* re.I: a letter matches in either case
Fold(c) ==
    IF \E i \in 1..Len(UpperCase) : UpperCase[i] = c
    THEN LowerCase[CHOOSE i \in 1..Len(UpperCase) : UpperCase[i] = c]
    ELSE c

\* mutant: the letters must match in case
reMatch_caseSensitive(language, lang) ==
    /\ Len(language) <= Len(lang)
    /\ \A i \in 1..Len(language) : language[i] = lang[i]

\* mutant: the language must be the whole entry
reMatch_whole(language, lang) ==
    /\ Len(language) = Len(lang)
    /\ \A i \in 1..Len(language) : Fold(language[i]) = Fold(lang[i])

\* re.match(re.escape(language), lang, re.I): language, taken literally,
\* matches at the start of lang
reMatch(language, lang) ==
    /\ Len(language) <= Len(lang)
    /\ \A i \in 1..Len(language) : Fold(language[i]) = Fold(lang[i])

\* next((lang for lang in notionSoLangs if re.match(...)), ""), scanning from i
RECURSIVE nextMatch(_, _)
nextMatch(language, i) ==
    IF i > Len(notionSoLangs) THEN <<>>
    ELSE IF reMatch(language, notionSoLangs[i]) THEN notionSoLangs[i]
    ELSE nextMatch(language, i + 1)

matchLang(language) ==
    IF language # <<>> THEN nextMatch(language, 1)
    ELSE <<"P","l","a","i","n"," ","T","e","x","t">>

-----------------------------------------------------------------------------
(* the handlers *)

render_document(tok) == render_multiple(tok.children)

render_block_code(tok) ==
    render_multiple_to_string_and_combine(
        tok.children, [fn |-> "code", matchLang |-> matchLang(tok.language)])

render_thematic_break(tok) == [t |-> "dict", type |-> "DividerBlock"]

\* mutant: the level is not clamped
render_heading_noClamp(tok) ==
    render_multiple_to_string_and_combine(
        tok.children, [fn |-> "heading", level |-> tok.level])

render_heading(tok) ==
    LET level == IF tok.level > 3 THEN 3 ELSE tok.level
    IN  render_multiple_to_string_and_combine(
            tok.children, [fn |-> "heading", level |-> level])

render_quote(tok) ==
    render_multiple_to_string_and_combine(tok.children, [fn |-> "quote"])

render_paragraph(tok) ==
    render_multiple_to_string_and_combine(tok.children, [fn |-> "paragraph"])

Digits == {"0", "1", "2", "3", "4", "5", "6", "7", "8", "9"}

\* re.match(r'\d', token.leader)
leaderContainsNumber(leader) == Len(leader) > 0 /\ leader[1] \in Digits

IsNotTextBlock(b) == b.type # "TextBlock"

IsTextBlock(b) == b.type = "TextBlock"

Titles(bs) == [i \in 1..Len(bs) |-> Str(bs[i].title)]

\* mutant: only the first Text block gives the title
listItem_firstTitle(leader, r) ==
    IF IsError(r) THEN r
    ELSE [t |-> "dict",
          type |-> IF leaderContainsNumber(leader)
                   THEN "NumberedListBlock" ELSE "BulletedListBlock",
          title |-> IF \E i \in 1..Len(r.items) : IsTextBlock(r.items[i])
                    THEN Head(SelectSeq(r.items, IsTextBlock)).title ELSE <<>>,
          children |-> SelectSeq(r.items, IsNotTextBlock)]

\* the body of render_list_item, r being render_multiple(token.children);
\* b['type'] of a str raises TypeError
listItem(leader, r) ==
    IF IsError(r) THEN r
    ELSE IF \E i \in 1..Len(r.items) : ~IsDict(r.items[i])
    THEN Raise("TypeError")
    ELSE [t |-> "dict",
          type |-> IF leaderContainsNumber(leader)
                   THEN "NumberedListBlock" ELSE "BulletedListBlock",
          title |-> join(Titles(SelectSeq(r.items, IsTextBlock))),
          children |-> SelectSeq(r.items, IsNotTextBlock)]

\* mutant: the items are wrapped in a block of the list
render_list_wrapped(tok) ==
    listItem(<<>>, render_multiple(tok.children))

render_list(tok) == render_multiple(tok.children)

render_list_item(tok) == listItem(tok.leader, render_multiple(tok.children))

\* the body of render_table, header_row and rows being rendered
table(header_row, rows) ==
    IF IsError(header_row) THEN header_row
    ELSE IF AnyError(rows) THEN FirstError(rows)
    ELSE [t |-> "dict",
          type |-> "CollectionViewBlock",
          rows |-> rows,
          schema |-> [i \in 1..Len(header_row.items) |->
                        [name |-> header_row.items[i], type |-> "text"]]]

\* mutant: the header row is kept as the first row
render_table_headerInRows(tok) ==
    table(render(tok.header),
          <<render(tok.header)>>
             \o [i \in 1..Len(tok.children) |-> render(tok.children[i])])

\* mutant: the schema is taken from the first body row when there is one
render_table_schemaFromBody(tok) ==
    table(IF Len(tok.children) > 0 THEN render(tok.children[1]) ELSE render(tok.header),
          [i \in 1..Len(tok.children) |-> render(tok.children[i])])

render_table(tok) ==
    table(render(tok.header),
          [i \in 1..Len(tok.children) |-> render(tok.children[i])])

render_table_row(tok) == render_multiple(tok.children)

\* return strs
tableCell(p) == IF IsError(p) THEN p ELSE Str(p.strs)

\* mutant: the blocks a cell could not convert are returned after its string
tableCell_keepBlocks(p) == IF IsError(p) THEN p ELSE List(<<Str(p.strs)>> \o p.blocks)

render_table_cell_keepBlocks(tok) ==
    tableCell_keepBlocks(render_multiple_to_string(tok.children))

render_table_cell(tok) == tableCell(render_multiple_to_string(tok.children))

Wrap(before, after) == [fn |-> "wrap", before |-> before, after |-> after]

render_strong(tok) ==
    render_multiple_to_string_and_combine(
        tok.children, Wrap(<<"*", "*">>, <<"*", "*">>))

render_emphasis(tok) ==
    render_multiple_to_string_and_combine(tok.children, Wrap(<<"*">>, <<"*">>))

\* the backquote character, which a TLA+ string cannot hold
Backquote == "BACKQUOTE"

render_inline_code(tok) ==
    render_multiple_to_string_and_combine(
        tok.children, Wrap(<<Backquote>>, <<Backquote>>))

render_raw_text(tok) == Str(tok.content)

\* mutant: two tildes
render_strikethrough_double(tok) ==
    render_multiple_to_string_and_combine(
        tok.children, Wrap(<<"~", "~">>, <<"~", "~">>))

render_strikethrough(tok) ==
    render_multiple_to_string_and_combine(tok.children, Wrap(<<"~">>, <<"~">>))

\* [ f"[{strs}]({token.target})" ] + blocks
link(target, p) ==
    IF IsError(p) THEN p
    ELSE List(<<Str(<<"[">> \o p.strs \o <<"]", "(">> \o target \o <<")">>)>>
                \o p.blocks)

render_link(tok) == link(tok.target, render_multiple_to_string(tok.children))

render_escape_sequence(tok) ==
    render_multiple_to_string_and_combine(tok.children, Wrap(<<"\\">>, <<>>))

render_line_break(tok) == Str(<<" ">>)

\* alt = token.title or self.render_multiple_to_string(token.children)[0]:
\* the children are rendered only when the title is falsy
image(src, alt) ==
    IF IsError(alt) THEN alt
    ELSE [t |-> "dict",
          type |-> "ImageBlock",
          display_source |-> src,
          source |-> src,
          caption |-> alt.s]

render_image(tok) ==
    image(tok.src, IF tok.title # <<>> THEN Str(tok.title)
                   ELSE tableCell(render_multiple_to_string(tok.children)))

\* render_map: the class names BaseRenderer registers, each bound to the
\* handler NotionRenderer defines for it
render_map == {"Document", "Heading", "SetextHeading", "Paragraph", "Quote",
               "ThematicBreak", "CodeFence", "BlockCode", "List", "ListItem",
               "Table", "TableRow", "TableCell", "Strong", "Emphasis",
               "InlineCode", "Strikethrough", "Link", "Image",
               "EscapeSequence", "LineBreak", "RawText"}

\* self.render_map[token.__class__.__name__](token)
render(tok) ==
    CASE tok.kind = "Document" -> render_document(tok)
      [] tok.kind \in {"Heading", "SetextHeading"} -> render_heading(tok)
      [] tok.kind = "Paragraph" -> render_paragraph(tok)
      [] tok.kind = "Quote" -> render_quote(tok)
      [] tok.kind = "ThematicBreak" -> render_thematic_break(tok)
      [] tok.kind \in {"CodeFence", "BlockCode"} -> render_block_code(tok)
      [] tok.kind = "List" -> render_list(tok)
      [] tok.kind = "ListItem" -> render_list_item(tok)
      [] tok.kind = "Table" -> render_table(tok)
      [] tok.kind = "TableRow" -> render_table_row(tok)
      [] tok.kind = "TableCell" -> render_table_cell(tok)
      [] tok.kind = "Strong" -> render_strong(tok)
      [] tok.kind = "Emphasis" -> render_emphasis(tok)
      [] tok.kind = "InlineCode" -> render_inline_code(tok)
      [] tok.kind = "Strikethrough" -> render_strikethrough(tok)
      [] tok.kind = "Link" -> render_link(tok)
      [] tok.kind = "Image" -> render_image(tok)
      [] tok.kind = "EscapeSequence" -> render_escape_sequence(tok)
      [] tok.kind = "LineBreak" -> render_line_break(tok)
      [] tok.kind = "RawText" -> render_raw_text(tok)
      [] tok.kind \notin render_map -> Raise("KeyError")

-----------------------------------------------------------------------------
(* tokens: the syntax tree mistletoe hands to the renderer *)

RawText(content) == [kind |-> "RawText", content |-> content]

LineBreak == [kind |-> "LineBreak"]

Span(kind, children) == [kind |-> kind, children |-> children]

Link(target, children) == [kind |-> "Link", target |-> target, children |-> children]

Image(src, title, children) ==
    [kind |-> "Image", src |-> src, title |-> title, children |-> children]

Heading(level, children) == [kind |-> "Heading", level |-> level, children |-> children]

SetextHeading(level, children) ==
    [kind |-> "SetextHeading", level |-> level, children |-> children]

Paragraph(children) == [kind |-> "Paragraph", children |-> children]

Quote(children) == [kind |-> "Quote", children |-> children]

ThematicBreak == [kind |-> "ThematicBreak"]

CodeFence(language, children) ==
    [kind |-> "CodeFence", language |-> language, children |-> children]

BlockCode(children) == [kind |-> "BlockCode", language |-> <<>>, children |-> children]

ListOf(children) == [kind |-> "List", children |-> children]

ListItem(leader, children) == [kind |-> "ListItem", leader |-> leader, children |-> children]

Table(header, children) == [kind |-> "Table", header |-> header, children |-> children]

TableRow(children) == [kind |-> "TableRow", children |-> children]

TableCell(children) == [kind |-> "TableCell", children |-> children]

Document(children) == [kind |-> "Document", children |-> children]

\* token classes BaseRenderer registers no handler for
HTMLSpan == [kind |-> "HTMLSpan", content |-> <<"h">>]

HTMLBlock == [kind |-> "HTMLBlock", content |-> <<"h">>]

-----------------------------------------------------------------------------
(* the bounded set of trees the renderer is run on *)

MaxInline == 3

MaxBlocks == 2

MaxItems == 3

MaxCells == 2

MaxRows == 2

MaxLangLen == 2

SeqsUpTo(S, n) == UNION {[1..k -> S] : k \in 0..n}

RA == RawText(<<"a">>)

RB == RawText(<<"b">>)

RE == RawText(<<>>)

ImgAlt == Image(<<"u">>, <<>>, <<RA>>)

ImgTitle == Image(<<"v">>, <<"t">>, <<RB>>)

ImgHidden == Image(<<"u">>, <<"t">>, <<HTMLSpan>>)

SpanKinds == {"Strong", "Emphasis", "InlineCode", "Strikethrough", "EscapeSequence"}

SpanSeqs == SeqsUpTo({RA, RE, ImgAlt, HTMLSpan}, MaxInline)

SpansOver(seqs) ==
    {Span(k, cs) : k \in SpanKinds, cs \in seqs} \cup {Link(<<"u">>, cs) : cs \in seqs}

Spans1 == SpansOver(SpanSeqs)

Spans1Core == SpansOver({<<RA>>, <<RA, ImgAlt>>, <<ImgAlt>>, <<RE>>})

Spans2 == SpansOver(UNION {{<<s>>, <<RB, s>>, <<s, RB>>} : s \in Spans1Core})

Spans3 == SpansOver({<<Span(k, <<s>>)>> : k \in {"Strong", "Strikethrough"},
                                           s \in SpansOver({<<RA>>})})

Images == {Image(<<"u">>, title, cs) : title \in {<<>>, <<"t">>}, cs \in SpanSeqs}
              \cup {ImgTitle}

Inlines == {RA, RB, RE, LineBreak} \cup Images \cup Spans1 \cup Spans2 \cup Spans3

\* paragraphs mixing text, spans and images
ParaSeqs ==
    SeqsUpTo({RA, RB, LineBreak, ImgAlt, ImgTitle, Span("Strong", <<RB>>),
              Link(<<"u">>, <<RA, ImgAlt>>)}, MaxInline)

\* paragraphs of raw text and nested formatting spans only
PureSeqs ==
    SeqsUpTo({RA, RB, Span("Strong", <<RA>>),
              Span("Emphasis", <<Span("Strong", <<RB>>), RA>>),
              Span("InlineCode", <<RB>>),
              Span("Strikethrough", <<RA, Span("Emphasis", <<RB>>)>>),
              Span("Strong", <<Span("Emphasis",
                    <<Span("Strikethrough", <<Span("InlineCode", <<RA>>)>>)>>)>>)},
             MaxInline)

Paragraphs ==
    {Paragraph(cs) : cs \in ParaSeqs \cup PureSeqs}
       \cup {Paragraph(<<RE>>), Paragraph(<<HTMLSpan>>), Paragraph(<<ImgHidden>>),
             Paragraph(<<RA, ImgHidden, RB>>),
             Paragraph(<<Span("Strong", <<RE>>), RA>>),
             Paragraph(<<Span("InlineCode", <<RE>>)>>)}

Headings ==
    {Heading(level, cs) : level \in 1..6,
        cs \in SeqsUpTo({RA, RE, ImgAlt, Span("Strong", <<RB>>)}, MaxInline)}
       \cup {SetextHeading(level, <<RA>>) : level \in 1..2}
       \cup {Heading(level, <<HTMLSpan>>) : level \in {2, 5}}

LangTokens == SeqsUpTo({"p", "y", "Y", "j", "s", "c", "+", "x"}, MaxLangLen)

CodeBlocks ==
    {CodeFence(language, <<RawText(c)>>) : language \in LangTokens,
                                            c \in {<<>>, <<"a">>}}
       \cup {BlockCode(<<RawText(c)>>) : c \in {<<>>, <<"a">>}}

Quotes ==
    {Quote(cs) : cs \in SeqsUpTo({Paragraph(<<RA>>), Paragraph(<<RB, ImgAlt>>),
                                  Heading(2, <<RA>>), ThematicBreak,
                                  Paragraph(<<HTMLSpan>>)}, MaxBlocks)}

Bullet == <<"-">>

Leaders == {Bullet, <<"+">>, <<"1", ".">>, <<"2", ")">>}

InnerList ==
    ListOf(<<ListItem(Bullet, <<Paragraph(<<RB>>)>>),
             ListItem(Bullet, <<Paragraph(<<RA>>),
                                ListOf(<<ListItem(<<"1", ".">>, <<Paragraph(<<RB>>)>>)>>)>>)>>)

ListItems ==
    {ListItem(leader, cs) : leader \in Leaders,
        cs \in SeqsUpTo({Paragraph(<<RA>>), Paragraph(<<RB>>),
                         Paragraph(<<RA, ImgAlt>>), Paragraph(<<ImgAlt>>), InnerList,
                         CodeFence(<<"p", "y">>, <<RA>>), Paragraph(<<HTMLSpan>>)},
                        MaxBlocks)}

Lists ==
    {ListOf(items) :
        items \in SeqsUpTo({ListItem(Bullet, <<Paragraph(<<RA>>)>>),
                            ListItem(<<"1", ".">>, <<Paragraph(<<RB>>)>>),
                            ListItem(Bullet, <<Paragraph(<<RA, ImgAlt>>), Paragraph(<<RB>>)>>),
                            ListItem(Bullet, <<Paragraph(<<RA>>), InnerList>>),
                            ListItem(Bullet, <<Paragraph(<<HTMLSpan>>)>>)}, MaxItems)}

TableCells ==
    {TableCell(cs) : cs \in SeqsUpTo({RA, RB, ImgAlt, Link(<<"u">>, <<RA, ImgAlt>>),
                                      Span("Emphasis", <<ImgAlt>>), HTMLSpan}, MaxInline)}

CellA == TableCell(<<RA>>)

CellB == TableCell(<<RB>>)

CellImg == TableCell(<<RB, ImgAlt>>)

TableRows ==
    {TableRow(cells) :
        cells \in SeqsUpTo({TableCell(<<>>), CellA, CellImg,
                            TableCell(<<Link(<<"u">>, <<RA, ImgAlt>>)>>),
                            TableCell(<<HTMLSpan>>)}, MaxCells)}

\* a header row has a cell
HeaderRows == {TableRow(cells) : cells \in SeqsUpTo({CellA, CellB, CellImg}, MaxCells) \ {<<>>}}
                 \cup {TableRow(<<TableCell(<<HTMLSpan>>)>>)}

BodyRows == {TableRow(<<CellA, CellB>>), TableRow(<<TableCell(<<>>), CellImg>>),
             TableRow(<<CellB>>), TableRow(<<TableCell(<<HTMLSpan>>)>>)}

Tables == {Table(header, rows) : header \in HeaderRows,
                                  rows \in SeqsUpTo(BodyRows, MaxRows)}

Documents ==
    {Document(cs) :
        cs \in SeqsUpTo({Paragraph(<<RA>>), Paragraph(<<RA, ImgAlt, RB>>),
                         Heading(5, <<RA>>),
                         ListOf(<<ListItem(Bullet, <<Paragraph(<<RA>>)>>),
                                  ListItem(Bullet, <<Paragraph(<<RB>>), InnerList>>)>>),
                         Table(TableRow(<<CellA, CellB>>), <<TableRow(<<CellB, CellImg>>)>>),
                         ThematicBreak, CodeFence(<<"x">>, <<RA>>),
                         Quote(<<Paragraph(<<RA>>), Paragraph(<<RB>>)>>),
                         ListOf(<<ListItem(Bullet, <<Paragraph(<<HTMLSpan>>)>>)>>),
                         HTMLBlock, Paragraph(<<ImgHidden>>)}, MaxBlocks)}

IsToken(tok) ==
    \/ tok \in Inlines
    \/ tok \in Paragraphs
    \/ tok \in Headings
    \/ tok \in CodeBlocks
    \/ tok \in Quotes
    \/ tok \in {ThematicBreak, HTMLSpan, HTMLBlock}
    \/ tok \in ListItems
    \/ tok \in Lists
    \/ tok \in TableCells
    \/ tok \in TableRows
    \/ tok \in Tables
    \/ tok \in Documents

-----------------------------------------------------------------------------
(* the renderer run on one tree: render(token) dispatches on the token's
   class name to its handler, which returns the rendered value or raises *)

NotRendered == [t |-> "none"]

Init ==
    /\ IsToken(token)
    /\ result = NotRendered
    /\ pc = "start"

RenderDocument ==
    /\ pc = "start"
    /\ token.kind = "Document"
    /\ result' = render_document(token)
    /\ pc' = "done"
    /\ UNCHANGED token

RenderHeading ==
    /\ pc = "start"
    /\ token.kind \in {"Heading", "SetextHeading"}
    /\ result' = render_heading(token)
    /\ pc' = "done"
    /\ UNCHANGED token

RenderParagraph ==
    /\ pc = "start"
    /\ token.kind = "Paragraph"
    /\ result' = render_paragraph(token)
    /\ pc' = "done"
    /\ UNCHANGED token

RenderQuote ==
    /\ pc = "start"
    /\ token.kind = "Quote"
    /\ result' = render_quote(token)
    /\ pc' = "done"
    /\ UNCHANGED token

RenderThematicBreak ==
    /\ pc = "start"
    /\ token.kind = "ThematicBreak"
    /\ result' = render_thematic_break(token)
    /\ pc' = "done"
    /\ UNCHANGED token

RenderBlockCode ==
    /\ pc = "start"
    /\ token.kind \in {"CodeFence", "BlockCode"}
    /\ result' = render_block_code(token)
    /\ pc' = "done"
    /\ UNCHANGED token

RenderList ==
    /\ pc = "start"
    /\ token.kind = "List"
    /\ result' = render_list(token)
    /\ pc' = "done"
    /\ UNCHANGED token

RenderListItem ==
    /\ pc = "start"
    /\ token.kind = "ListItem"
    /\ result' = render_list_item(token)
    /\ pc' = "done"
    /\ UNCHANGED token

RenderTable ==
    /\ pc = "start"
    /\ token.kind = "Table"
    /\ result' = render_table(token)
    /\ pc' = "done"
    /\ UNCHANGED token

RenderTableRow ==
    /\ pc = "start"
    /\ token.kind = "TableRow"
    /\ result' = render_table_row(token)
    /\ pc' = "done"
    /\ UNCHANGED token

RenderTableCell ==
    /\ pc = "start"
    /\ token.kind = "TableCell"
    /\ result' = render_table_cell(token)
    /\ pc' = "done"
    /\ UNCHANGED token

RenderStrong ==
    /\ pc = "start"
    /\ token.kind = "Strong"
    /\ result' = render_strong(token)
    /\ pc' = "done"
    /\ UNCHANGED token

RenderEmphasis ==
    /\ pc = "start"
    /\ token.kind = "Emphasis"
    /\ result' = render_emphasis(token)
    /\ pc' = "done"
    /\ UNCHANGED token

RenderInlineCode ==
    /\ pc = "start"
    /\ token.kind = "InlineCode"
    /\ result' = render_inline_code(token)
    /\ pc' = "done"
    /\ UNCHANGED token

RenderStrikethrough ==
    /\ pc = "start"
    /\ token.kind = "Strikethrough"
    /\ result' = render_strikethrough(token)
    /\ pc' = "done"
    /\ UNCHANGED token

RenderLink ==
    /\ pc = "start"
    /\ token.kind = "Link"
    /\ result' = render_link(token)
    /\ pc' = "done"
    /\ UNCHANGED token

RenderImage ==
    /\ pc = "start"
    /\ token.kind = "Image"
    /\ result' = render_image(token)
    /\ pc' = "done"
    /\ UNCHANGED token

RenderEscapeSequence ==
    /\ pc = "start"
    /\ token.kind = "EscapeSequence"
    /\ result' = render_escape_sequence(token)
    /\ pc' = "done"
    /\ UNCHANGED token

RenderLineBreak ==
    /\ pc = "start"
    /\ token.kind = "LineBreak"
    /\ result' = render_line_break(token)
    /\ pc' = "done"
    /\ UNCHANGED token

RenderRawText ==
    /\ pc = "start"
    /\ token.kind = "RawText"
    /\ result' = render_raw_text(token)
    /\ pc' = "done"
    /\ UNCHANGED token

\* a class name that is no key of render_map
RenderUnregistered ==
    /\ pc = "start"
    /\ token.kind \notin render_map
    /\ result' = Raise("KeyError")
    /\ pc' = "done"
    /\ UNCHANGED token

Next ==
    \/ RenderDocument
    \/ RenderHeading
    \/ RenderParagraph
    \/ RenderQuote
    \/ RenderThematicBreak
    \/ RenderBlockCode
    \/ RenderList
    \/ RenderListItem
    \/ RenderTable
    \/ RenderTableRow
    \/ RenderTableCell
    \/ RenderStrong
    \/ RenderEmphasis
    \/ RenderInlineCode
    \/ RenderStrikethrough
    \/ RenderLink
    \/ RenderImage
    \/ RenderEscapeSequence
    \/ RenderLineBreak
    \/ RenderRawText
    \/ RenderUnregistered

Spec == Init /\ [][Next]_vars

Done == pc = "done"

Returned == Done /\ ~IsError(result)

-----------------------------------------------------------------------------
(* what the properties below speak of *)

Children(tok) == IF "children" \in DOMAIN tok THEN tok.children ELSE <<>>

\* the values a rendered value contributes to its parent's flattened sequence
RECURSIVE Contributed(_)
Contributed(v) ==
    IF v.t = "list"
    THEN IF Len(v.items) = 0 THEN <<>>
         ELSE Contributed(Head(v.items)) \o Contributed(List(Tail(v.items)))
    ELSE <<v>>

\* the rendered children of tok, one after the other
RECURSIVE RenderedFrom(_, _)
RenderedFrom(tok, i) ==
    IF i > Len(Children(tok)) THEN <<>>
    ELSE Contributed(render(tok.children[i])) \o RenderedFrom(tok, i + 1)

Rendered(tok) == RenderedFrom(tok, 1)

\* a string result: a bare str or a Text block
IsStringResult(v) == v.t = "str" \/ (v.t = "dict" /\ v.type = "TextBlock")

IsNonStringBlock(v) == v.t = "dict" /\ v.type # "TextBlock"

TextOf(v) == IF v.t = "str" THEN v.s ELSE v.title

\* the concatenation of the string results among vs, in order
RECURSIVE StringsOf(_)
StringsOf(vs) ==
    IF Len(vs) = 0 THEN <<>>
    ELSE (IF IsStringResult(Head(vs)) THEN TextOf(Head(vs)) ELSE <<>>)
            \o StringsOf(Tail(vs))

\* some node of the tree, at any depth, the header row of a table included
RECURSIVE HasUnregistered(_)
HasUnregistered(tok) ==
    \/ tok.kind \notin render_map
    \/ \E i \in 1..Len(Children(tok)) : HasUnregistered(tok.children[i])
    \/ tok.kind = "Table" /\ HasUnregistered(tok.header)

CombiningKinds ==
    {"Paragraph", "Heading", "SetextHeading", "Quote", "CodeFence", "BlockCode",
     "Strong", "Emphasis", "InlineCode", "Strikethrough", "EscapeSequence"}

\* the block a combining handler constructs from the string s
Carries(tok, b, s) ==
    CASE tok.kind = "Paragraph" -> b = [t |-> "dict", type |-> "TextBlock", title |-> s]
      [] tok.kind = "Quote" -> b = [t |-> "dict", type |-> "QuoteBlock", title |-> s]
      [] tok.kind \in {"Heading", "SetextHeading"} ->
            b.t = "dict" /\ b.type \in {"HeaderBlock", "SubheaderBlock", "SubsubheaderBlock"}
                         /\ b.title = s
      [] tok.kind \in {"CodeFence", "BlockCode"} ->
            b.t = "dict" /\ b.type = "CodeBlock" /\ b.title_plaintext = s
      [] tok.kind = "Strong" -> b = Str(<<"*", "*">> \o s \o <<"*", "*">>)
      [] tok.kind = "Emphasis" -> b = Str(<<"*">> \o s \o <<"*">>)
      [] tok.kind = "InlineCode" -> b = Str(<<Backquote>> \o s \o <<Backquote>>)
      [] tok.kind = "Strikethrough" -> b = Str(<<"~">> \o s \o <<"~">>)
      [] tok.kind = "EscapeSequence" -> b = Str(<<"\\">> \o s)

-----------------------------------------------------------------------------
\* C1: render_multiple_to_string_and_combine, for every handler that calls it
\* and every sequence of children that renders: the result holds the
\* constructed string block exactly when the concatenation of the children's
\* string results (bare strings and Text-block titles, in child order) is
\* non-empty; that block is then the first element and the only constructed
\* one; all non-string blocks follow in the order in which they were rendered.
\* So a paragraph of text with one inline image anywhere in it renders to
\* [Text block, Image block].
C1_StringBlockFirst ==
    (Returned /\ token.kind \in CombiningKinds) =>
        LET rendered == Rendered(token)
            strs == StringsOf(rendered)
            blocks == SelectSeq(rendered, IsNonStringBlock)
        IN  /\ result.t = "list"
            /\ strs = <<>> => result.items = blocks
            /\ strs # <<>> =>
                  /\ Len(result.items) = 1 + Len(blocks)
                  /\ Carries(token, result.items[1], strs)
                  /\ SubSeq(result.items, 2, Len(result.items)) = blocks
            /\ (/\ token.kind = "Paragraph"
                /\ strs # <<>>
                /\ \A i \in 1..Len(token.children) :
                      token.children[i].kind \in {"RawText", "Image"}
                /\ Cardinality({i \in 1..Len(token.children) :
                                   token.children[i].kind = "Image"}) = 1)
               => /\ Len(result.items) = 2
                  /\ result.items[1].type = "TextBlock"
                  /\ result.items[2].type = "ImageBlock"

\* a paragraph whose text stands between two images: the Text block is first,
\* the two Image blocks follow in their order
C1_Witness ==
    /\ Returned
    /\ token = Paragraph(<<ImgTitle, RA, ImgAlt>>)
    /\ Len(result.items) = 3
    /\ result.items[1] = [t |-> "dict", type |-> "TextBlock", title |-> <<"a">>]
    /\ result.items[2].source = <<"v">>
    /\ result.items[3].source = <<"u">>

-----------------------------------------------------------------------------
\* each token of ts rendered on its own
EachRendered(ts) == [i \in 1..Len(ts) |-> render(ts[i])]

IsStringArray(v) == v.t = "list" /\ \A j \in 1..Len(v.items) : v.items[j].t = "str"

\* C2 as stated: the rows of a rendered Table are the header row's cell
\* strings first, then one string array per body row in document order.
C2_RowsStartWithHeader ==
    (Returned /\ token.kind = "Table") =>
        result.rows = <<render(token.header)>> \o EachRendered(token.children)

\* C2 as amended: the rows of a rendered Table are exactly one string array
\* per body row, in document order; the header row is not among them, its cell
\* strings appear in the schema only.
C2_RowsAreBodyRows ==
    (Returned /\ token.kind = "Table") =>
        /\ Len(result.rows) = Len(token.children)
        /\ \A i \in 1..Len(token.children) :
              /\ result.rows[i] = render(token.children[i])
              /\ IsStringArray(result.rows[i])
        /\ result.type = "CollectionViewBlock"

\* a table of two body rows whose header differs from both
C2_Witness ==
    /\ Returned
    /\ token = Table(TableRow(<<CellB, CellA>>),
                     <<TableRow(<<CellA, CellB>>), TableRow(<<CellB>>)>>)
    /\ result.rows = <<List(<<Str(<<"a">>), Str(<<"b">>)>>), List(<<Str(<<"b">>)>>)>>

\* C3: the schema of a rendered Table has one entry per header cell, in header
\* order, each {name: the rendered string of that header cell, type: "text"};
\* the body rows contribute nothing to it.
C3_SchemaFromHeader ==
    (Returned /\ token.kind = "Table") =>
        /\ Len(result.schema) = Len(token.header.children)
        /\ \A i \in 1..Len(token.header.children) :
              /\ result.schema[i] =
                    [name |-> render(token.header.children[i]), type |-> "text"]
              /\ result.schema[i].name.t = "str"

\* a table of two header cells over body rows of two cells and of one cell
C3_Witness ==
    /\ Returned
    /\ token = Table(TableRow(<<CellB, CellA>>),
                     <<TableRow(<<CellA, CellB>>), TableRow(<<CellB>>)>>)
    /\ result.schema = <<[name |-> Str(<<"b">>), type |-> "text"],
                         [name |-> Str(<<"a">>), type |-> "text"]>>

\* C10: a TableCell renders to exactly one string, the concatenation of its
\* children's string results (empty for an empty cell); a non-string block
\* among its rendered children, also one that a link or an emphasis passed
\* up, is dropped and the render goes on; so a TableRow renders to a list of
\* strings, one per cell, in cell order.
C10_CellsAreStrings ==
    /\ (Done /\ token.kind = "TableCell" /\ ~HasUnregistered(token)) =>
          result = Str(StringsOf(Rendered(token)))
    /\ (Done /\ token.kind = "TableRow" /\ ~HasUnregistered(token)) =>
          /\ IsStringArray(result)
          /\ Len(result.items) = Len(token.children)
          /\ \A i \in 1..Len(token.children) :
                result.items[i] = Str(StringsOf(Rendered(token.children[i])))

\* a row of an empty cell and a cell whose link holds an image: two strings
C10_Witness ==
    /\ Done
    /\ token = TableRow(<<TableCell(<<>>),
                          TableCell(<<Link(<<"u">>, <<RA, ImgAlt>>)>>)>>)
    /\ result = List(<<Str(<<>>), Str(<<"[", "a", "]", "(", "u", ")">>)>>)

-----------------------------------------------------------------------------
\* the string a combining handler hands to its block constructor
HeadingText(tok) == StringsOf(Rendered(tok))

\* C4: a Heading with non-empty text renders, without failing, a Header block
\* at level 1, a Subheader block at level 2 and a Subsubheader block at every
\* level from 3 to 6; at level 4, 5 or 6 the whole result is that of the
\* level-3 heading with the same children.
C4_HeadingLevels ==
    (Done /\ token.kind = "Heading" /\ ~HasUnregistered(token)
          /\ HeadingText(token) # <<>>) =>
        /\ ~IsError(result)
        /\ result.items[1] =
              [t |-> "dict",
               type |-> CASE token.level = 1 -> "HeaderBlock"
                          [] token.level = 2 -> "SubheaderBlock"
                          [] token.level \in 3..6 -> "SubsubheaderBlock",
               title |-> HeadingText(token)]
        /\ token.level \in 4..6 =>
              result = render(Heading(3, token.children))

\* a level-5 heading of text and an image: a Subsubheader block, then the image
C4_Witness ==
    /\ Returned
    /\ token = Heading(5, <<RA, ImgAlt, Span("Strong", <<RB>>)>>)
    /\ Len(result.items) = 2
    /\ result.items[1] = [t |-> "dict", type |-> "SubsubheaderBlock",
                          title |-> <<"a", "*", "*", "b", "*", "*">>]

-----------------------------------------------------------------------------
\* what a child adds to its parent's block sequence when a List is replaced
\* by its items, each rendered on its own
RECURSIVE ItemsInPlace(_, _)
ItemsInPlace(tok, i) ==
    IF i > Len(tok.children) THEN <<>>
    ELSE (IF tok.children[i].kind = "List"
          THEN EachRendered(tok.children[i].children)
          ELSE Contributed(render(tok.children[i])))
            \o ItemsInPlace(tok, i + 1)

IsListItemBlock(v) ==
    v.t = "dict" /\ v.type \in {"NumberedListBlock", "BulletedListBlock"}

\* C5: a List yields no block of its own.  Rendered, a List of n items is
\* exactly the n list-item blocks of its items, in item order; in a Document
\* these stand directly in the top-level sequence, and in a ListItem they
\* stand directly among the item's children, whatever the items hold.
C5_ListIsTransparent ==
    /\ (Returned /\ token.kind = "List") =>
          /\ result.t = "list"
          /\ Len(result.items) = Len(token.children)
          /\ \A i \in 1..Len(token.children) :
                /\ result.items[i] = render(token.children[i])
                /\ IsListItemBlock(result.items[i])
    /\ (Returned /\ token.kind = "Document") =>
          result.items = ItemsInPlace(token, 1)
    /\ (Returned /\ token.kind = "ListItem") =>
          result.children = SelectSeq(ItemsInPlace(token, 1), IsNonStringBlock)

\* a document of a two-item list, the second item holding a nested list, and
\* a paragraph: three top-level blocks, the nested items below the second
C5_Witness ==
    /\ Returned
    /\ token.kind = "Document"
    /\ Len(token.children) = 2
    /\ token.children[1].kind = "List"
    /\ token.children[2] = Paragraph(<<RA>>)
    /\ Len(result.items) = 3
    /\ IsListItemBlock(result.items[1])
    /\ IsListItemBlock(result.items[2])
    /\ Len(result.items[2].children) = 2
    /\ \A i \in 1..2 : IsListItemBlock(result.items[2].children[i])
    /\ result.items[3].type = "TextBlock"

-----------------------------------------------------------------------------
\* the titles of the Text blocks among vs, joined in order
RECURSIVE TextTitles(_)
TextTitles(vs) ==
    IF Len(vs) = 0 THEN <<>>
    ELSE (IF Head(vs).type = "TextBlock" THEN Head(vs).title ELSE <<>>)
            \o TextTitles(Tail(vs))

\* C9: a ListItem renders to one block: its title is the titles of the Text
\* blocks among its rendered children joined in encounter order, its children
\* are the rendered results that are not Text blocks in their order, none lost
\* or doubled, and it is numbered exactly when the leader begins with a digit.
C9_ListItemPartition ==
    (Returned /\ token.kind = "ListItem") =>
        LET rendered == Rendered(token)
            texts == SelectSeq(rendered, IsStringResult)
            others == SelectSeq(rendered, IsNonStringBlock)
        IN  /\ result.t = "dict"
            /\ result.title = TextTitles(rendered)
            /\ result.children = others
            /\ Len(texts) + Len(result.children) = Len(rendered)
            /\ result.type = IF token.leader[1] \in Digits
                             THEN "NumberedListBlock" ELSE "BulletedListBlock"

\* a numbered item of a paragraph with an image and a second paragraph
C9_Witness ==
    /\ Returned
    /\ token = ListItem(<<"2", ")">>, <<Paragraph(<<RA, ImgAlt>>), Paragraph(<<RB>>)>>)
    /\ result.type = "NumberedListBlock"
    /\ result.title = <<"a", "b">>
    /\ Len(result.children) = 1
    /\ result.children[1].type = "ImageBlock"

-----------------------------------------------------------------------------
\* language, letter case apart, begins the allow-list's entry i
IsPrefixOfEntry(language, i) ==
    /\ Len(language) <= Len(notionSoLangs[i])
    /\ \A k \in 1..Len(language) :
          \/ language[k] = notionSoLangs[i][k]
          \/ \E n \in 1..Len(UpperCase) :
                {language[k], notionSoLangs[i][k]} = {UpperCase[n], LowerCase[n]}

\* the label C6 states for a language token
StatedLabel(language) ==
    IF language = <<>> THEN <<"P", "l", "a", "i", "n", " ", "T", "e", "x", "t">>
    ELSE IF \E i \in 1..Len(notionSoLangs) : IsPrefixOfEntry(language, i)
    THEN notionSoLangs[CHOOSE i \in 1..Len(notionSoLangs) :
            /\ IsPrefixOfEntry(language, i)
            /\ \A j \in 1..(i - 1) : ~IsPrefixOfEntry(language, j)]
    ELSE <<>>

\* C6: a code block with non-empty text renders, without failing, to one Code
\* block holding the text, labelled "Plain Text" when the language token is
\* empty, otherwise with the first allow-list entry, in list order, that the
\* token begins letter case apart (py gives Python), and with the empty label
\* when the token begins no entry.
C6_CodeLanguage ==
    (Done /\ token.kind \in {"CodeFence", "BlockCode"}
          /\ token.children[1].content # <<>>) =>
        /\ result = List(<<[t |-> "dict", type |-> "CodeBlock",
                            language |-> StatedLabel(token.language),
                            title_plaintext |-> token.children[1].content]>>)
        /\ token.language \in {<<"p", "y">>, <<"p", "Y">>} =>
              result.items[1].language = <<"P", "y", "t", "h", "o", "n">>
        /\ token.language = <<"x", "y">> => result.items[1].language = <<>>

\* a fence tagged pY, in the other letter case than the entry Python
C6_Witness ==
    /\ Done
    /\ token = CodeFence(<<"p", "Y">>, <<RA>>)
    /\ result.items[1].language = <<"P", "y", "t", "h", "o", "n">>

-----------------------------------------------------------------------------
FormatKinds == {"Strong", "Emphasis", "InlineCode", "Strikethrough"}

\* raw text that is not empty, and formatting spans over such inlines
RECURSIVE IsFormattedText(_)
IsFormattedText(tok) ==
    \/ tok.kind = "RawText" /\ tok.content # <<>>
    \/ /\ tok.kind \in FormatKinds
       /\ tok.children # <<>>
       /\ \A i \in 1..Len(tok.children) : IsFormattedText(tok.children[i])

Sigil(kind) ==
    CASE kind = "Strong" -> <<"*", "*">>
      [] kind = "Emphasis" -> <<"*">>
      [] kind = "InlineCode" -> <<Backquote>>
      [] kind = "Strikethrough" -> <<"~">>

\* the Markdown the inlines toks[i..] were parsed from
RECURSIVE Serialized(_, _)
Serialized(toks, i) ==
    IF i > Len(toks) THEN <<>>
    ELSE (IF toks[i].kind = "RawText" THEN toks[i].content
          ELSE Sigil(toks[i].kind) \o Serialized(toks[i].children, 1)
                    \o Sigil(toks[i].kind))
            \o Serialized(toks, i + 1)

\* C7: a paragraph of raw text and Strong, Emphasis, InlineCode and
\* Strikethrough spans with non-empty inner text, nested to any depth, renders
\* to exactly one Text block, whose title is the raw text in order with every
\* span written as its sigil pair around its inner rendering.
C7_InlineSigils ==
    (Done /\ token.kind = "Paragraph" /\ token.children # <<>>
          /\ \A i \in 1..Len(token.children) : IsFormattedText(token.children[i])) =>
        result = List(<<[t |-> "dict", type |-> "TextBlock",
                         title |-> Serialized(token.children, 1)]>>)

\* a paragraph holding a span nested four deep between two other inlines
C7_Witness ==
    /\ Done
    /\ token = Paragraph(<<
          Span("Strikethrough", <<RA, Span("Emphasis", <<RB>>)>>),
          Span("Strong", <<Span("Emphasis",
                <<Span("Strikethrough", <<Span("InlineCode", <<RA>>)>>)>>)>>),
          RB>>)
    /\ result.items[1].title =
          <<"~", "a", "*", "b", "*", "~",
            "*", "*", "*", "~", Backquote, "a", Backquote, "~", "*", "*", "*",
            "b">>

-----------------------------------------------------------------------------
\* C8 as stated: the render ends in an error exactly when the tree holds, at
\* any depth, a node whose kind has no registered handler.
C8_UnregisteredAlwaysFatal ==
    Done => (IsError(result) <=> HasUnregistered(token))

\* a node the renderer comes to: the children of an Image that has a title
\* are not rendered
RECURSIVE ReachesUnregistered(_)
ReachesUnregistered(tok) ==
    \/ tok.kind \notin render_map
    \/ /\ ~(tok.kind = "Image" /\ tok.title # <<>>)
       /\ \E i \in 1..Len(Children(tok)) : ReachesUnregistered(tok.children[i])
    \/ tok.kind = "Table" /\ ReachesUnregistered(tok.header)

\* C8 as amended: the render ends in an error, a KeyError, exactly when the
\* tree holds a node whose kind has no registered handler anywhere but below
\* an Image that has a title; below such an Image the node is never rendered,
\* raises nothing and leaves no trace in the result.  A heading level above 3,
\* an unmatched code language and blocks in a table cell raise nothing.
C8_ReachedUnregisteredFatal ==
    Done =>
        /\ IsError(result) <=> ReachesUnregistered(token)
        /\ IsError(result) => result = Raise("KeyError")
        /\ (token.kind = "Image" /\ token.title # <<>>) =>
              result = [t |-> "dict", type |-> "ImageBlock",
                        display_source |-> token.src, source |-> token.src,
                        caption |-> token.title]

\* a document whose list holds, three levels down, a node of unregistered kind
C8_Witness ==
    /\ Done
    /\ token.kind = "Document"
    /\ Len(token.children) = 2
    /\ token.children[1] = Paragraph(<<RA>>)
    /\ token.children[2].kind = "List"
    /\ token.children[2].children[1].children[1].children[1].kind \notin render_map
    /\ result = Raise("KeyError")

====
